---- MODULE Spec2Model ----
(***************************************************************************)
(* The presentation-designer action handlers (src/src/actions/index.ts)    *)
(* over the two tables of the schema (src/unnamed/part_000).               *)
(*                                                                         *)
(* A table is the set of its rows.  Every handler is an async function:    *)
(* it runs synchronously up to its next store query, and each store query  *)
(* is one atomic step.  A request is carried by a process p; pc[p] names   *)
(* the query the handler is waiting to have executed.                      *)
(*                                                                         *)
(* Optional values (zod .optional(), drizzle's possibly-empty row lists)   *)
(* are sequences of length 0 (undefined) or 1.                             *)
(*                                                                         *)
(* The rows carry the columns the handlers compute with: the keys, the     *)
(* owner, slideCount, orderIndex and updatedAt.  The free-text columns     *)
(* (title, description, theme, aspectRatio; layoutType, title, content,    *)
(* notes, rawData) are copied from the input and never read, and createdAt *)
(* is written once at insert and never read; they are left out.  An update *)
(* whose numeric field is undefined is one that supplies text fields only. *)
(***************************************************************************)
EXTENDS Integers, Sequences, FiniteSets, TLC

\* Bounds of the model.
NumProcs == 2        \* requests in flight
MaxPres == 2         \* presentation ids ever generated
MaxSlides == 2       \* slide ids ever generated
MaxTime == 1         \* clock readings 0..MaxTime
MaxOrderInput == 0   \* explicit orderIndex inputs 0..MaxOrderInput
MaxCountInput == 0   \* explicit slideCount inputs 0..MaxCountInput

Procs == 1..NumProcs
PresIds == 1..MaxPres
SlideIds == 1..MaxSlides
Users == {"A", "B"}
NoUser == "anonymous"          \* context.locals.user is undefined
Callers == Users \cup {NoUser}
OrderInputs == 0..MaxOrderInput
CountInputs == 0..MaxCountInput

Undefined == << >>
Some(v) == << v >>
Opt(S) == {Undefined} \cup {Some(v) : v \in S}
IsDefined(o) == Len(o) > 0

VARIABLES
  Presentations,   \* table Presentations: set of rows
  Slides,          \* table Slides: set of rows
  now,             \* the clock read by new Date()
  presUuids,       \* number of presentation ids generated by crypto.randomUUID()
  slideUuids,      \* number of slide ids generated by crypto.randomUUID()
  pc,              \* pc[p]: the query process p's handler awaits, or "idle"
  req,             \* req[p]: the action and validated input of p's request
  frame,           \* frame[p]: the handler's local constants (now, id, existingOrders, slide)
  response         \* the response being handed to its caller: request and outcome

vars == << Presentations, Slides, now, presUuids, slideUuids, pc, req, frame, response >>
store == << Presentations, Slides >>

----------------------------------------------------------------------------
\* Requests: an action name, the caller, and an input that passed the zod schema.

NoReq ==
  [op |-> "none", user |-> NoUser, id |-> 0, presentationId |-> 0,
   orderIndex |-> Undefined, slideCount |-> Undefined]

CreatePresentationInputs ==
  { [NoReq EXCEPT !.op = "createPresentation", !.user = u] : u \in Callers }

UpdatePresentationInputs ==
  { [NoReq EXCEPT !.op = "updatePresentation", !.user = u, !.id = i, !.slideCount = c] :
      u \in Callers, i \in PresIds, c \in Opt(CountInputs) }

ListPresentationsInputs ==
  { [NoReq EXCEPT !.op = "listPresentations", !.user = u] : u \in Callers }

CreateSlideInputs ==
  { [NoReq EXCEPT !.op = "createSlide", !.user = u, !.presentationId = i,
                  !.orderIndex = o] :
      u \in Callers, i \in PresIds, o \in Opt(OrderInputs) }

UpdateSlideInputs ==
  { [NoReq EXCEPT !.op = "updateSlide", !.user = u, !.id = s,
                  !.presentationId = i, !.orderIndex = o] :
      u \in Callers, s \in SlideIds, i \in PresIds, o \in Opt(OrderInputs) }

DeleteSlideInputs ==
  { [NoReq EXCEPT !.op = "deleteSlide", !.user = u, !.id = s, !.presentationId = i] :
      u \in Callers, s \in SlideIds, i \in PresIds }

ListSlidesInputs ==
  { [NoReq EXCEPT !.op = "listSlides", !.user = u, !.presentationId = i] :
      u \in Callers, i \in PresIds }

----------------------------------------------------------------------------
\* Results: the success envelope, or the ActionError thrown.

NoData == [none |-> TRUE]
NoResponse == [req |-> NoReq, result |-> [code |-> "", message |-> "", data |-> NoData]]
Responding == response.req.op # "none"
Success(d) == [code |-> "OK", message |-> "", data |-> d]
ActionError(code, message) == [code |-> code, message |-> message, data |-> NoData]

Unauthorized == ActionError("UNAUTHORIZED", "You must be signed in to perform this action.")
PresentationNotFound == ActionError("NOT_FOUND", "Presentation not found.")
SlideNotFound == ActionError("NOT_FOUND", "Slide not found.")

NoFrame == [now |-> 0, id |-> 0, existingOrders |-> << >>, slide |-> Undefined]

----------------------------------------------------------------------------
\* Query helpers.

\* const [row] = await db.select()... : the first row, or undefined.
First(rows) == IF rows = {} THEN Undefined ELSE Some(CHOOSE r \in rows : TRUE)

Max(S) == CHOOSE x \in S : \A y \in S : y <= x

\* The orderIndex column of a set of rows, as the array the query returns
\* (rows in id order; the code reads only its length and its maximum).
RECURSIVE OrdersOf(_)
OrdersOf(rows) ==
  IF rows = {} THEN << >>
  ELSE LET r == CHOOSE x \in rows : \A y \in rows : x.id <= y.id
       IN  << r.orderIndex >> \o OrdersOf(rows \ {r})

SlidesOf(presentationId) == { s \in Slides : s.presentationId = presentationId }

\* Faulty variant of requireUser: the check is missing.
RequireUserNeverFails(user) == FALSE

\* requireUser: the user of the request context, or UNAUTHORIZED.
RequireUserFails(user) == user = NoUser

\* Faulty variants of getOwnedPresentation: the owner condition is missing; the id
\* condition is missing.
GetPresentationOfAnyOwner(presentationId, userId) ==
  First({ r \in Presentations : r.id = presentationId })
GetAnyOwnedPresentation(presentationId, userId) ==
  First({ r \in Presentations : r.userId = userId })

\* getOwnedPresentation's query: the row with that id and that owner.
GetOwnedPresentation(presentationId, userId) ==
  First({ r \in Presentations : r.id = presentationId /\ r.userId = userId })

\* The presentation id a request is guarded on.
GuardedId(r) == IF r.op = "updatePresentation" THEN r.id ELSE r.presentationId

\* Faulty variants of nextOrder: the count of the existing slides plus one; the
\* maximum without the increment.
NextOrderByCount(orderIndex, existingOrders) ==
  IF IsDefined(orderIndex) THEN orderIndex[1] ELSE Len(existingOrders) + 1
NextOrderIsMax(orderIndex, existingOrders) ==
  IF IsDefined(orderIndex) THEN orderIndex[1]
  ELSE IF Len(existingOrders) # 0
       THEN Max({ existingOrders[i] : i \in 1..Len(existingOrders) })
       ELSE 1

\* createSlide's nextOrder.
NextOrder(orderIndex, existingOrders) ==
  IF IsDefined(orderIndex) THEN orderIndex[1]
  ELSE IF Len(existingOrders) # 0
       THEN Max({ existingOrders[i] : i \in 1..Len(existingOrders) }) + 1
       ELSE 1

\* Faulty variants of deleteSlide's filter: the presentationId condition is missing;
\* the id condition is missing.
DeletedSlidesById(id, presentationId) == { s \in Slides : s.id = id }
DeletedSlidesByPresentation(id, presentationId) ==
  { s \in Slides : s.presentationId = presentationId }

\* The rows deleteSlide's query deletes.
DeletedSlides(id, presentationId) ==
  { s \in Slides : s.id = id /\ s.presentationId = presentationId }

\* Faulty variant of the new slideCount: the increment is missing.
SlideCountWithoutNew(existingOrders) == Len(existingOrders)

\* createSlide's new slideCount.
NextSlideCount(existingOrders) == Len(existingOrders) + 1

----------------------------------------------------------------------------
Init ==
  /\ Presentations = {}
  /\ Slides = {}
  /\ now = 0
  /\ presUuids = 0
  /\ slideUuids = 0
  /\ pc = [p \in Procs |-> "idle"]
  /\ req = [p \in Procs |-> NoReq]
  /\ frame = [p \in Procs |-> NoFrame]
  /\ response = NoResponse

\* The handler of request rq returns or throws.
Finish(p, rq, r) ==
  /\ pc' = [pc EXCEPT ![p] = "idle"]
  /\ req' = [req EXCEPT ![p] = NoReq]
  /\ frame' = [frame EXCEPT ![p] = NoFrame]
  /\ response' = [req |-> rq, result |-> r]

\* The handler issues its next query and awaits it.
Await(p, label, f) ==
  /\ pc' = [pc EXCEPT ![p] = label]
  /\ frame' = [frame EXCEPT ![p] = f]
  /\ UNCHANGED response

\* The response reaches the caller.  Nothing else happens in between: a
\* response in hand is an observation of the step that produced it.
Respond ==
  /\ Responding
  /\ response' = NoResponse
  /\ UNCHANGED << Presentations, Slides, now, presUuids, slideUuids, pc, req, frame >>

\* The clock advances.
Tick ==
  /\ ~Responding
  /\ now < MaxTime
  /\ now' = now + 1
  /\ UNCHANGED << Presentations, Slides, presUuids, slideUuids, pc, req, frame, response >>

----------------------------------------------------------------------------
\* defineAction: process p takes request r and runs the handler up to its
\* first await.  Every handler starts with requireUser.
Call(p, r, label, f) ==
  /\ pc[p] = "idle"
  /\ IF RequireUserFails(r.user)
     THEN Finish(p, r, Unauthorized)
     ELSE Await(p, label, f) /\ req' = [req EXCEPT ![p] = r]

\* ---- createPresentation ----
CreatePresentation(p, inputs) ==
  \E r \in inputs :
    /\ presUuids < MaxPres
    /\ Call(p, r, "insertPresentation", [NoFrame EXCEPT !.now = now, !.id = presUuids + 1])
    /\ presUuids' = IF RequireUserFails(r.user) THEN presUuids ELSE presUuids + 1
    /\ UNCHANGED << Presentations, Slides, now, slideUuids >>

InsertPresentation(p) ==
  /\ pc[p] = "insertPresentation"
  /\ LET row == [id |-> frame[p].id, userId |-> req[p].user,
                 slideCount |-> 0, updatedAt |-> frame[p].now]
     IN  /\ Presentations' = Presentations \cup {row}
         /\ Finish(p, req[p], Success([presentation |-> Some(row)]))
  /\ UNCHANGED << Slides, now, presUuids, slideUuids >>

\* ---- the ownership guard shared by the five presentation-scoped handlers ----
AwaitOwnedPresentation(p, r) ==
  /\ Call(p, r, "getOwnedPresentation", NoFrame)
  /\ UNCHANGED << Presentations, Slides, now, presUuids, slideUuids >>

\* What the handler awaits once the guard has passed.
AfterGuard(op) ==
  CASE op = "updatePresentation" -> "updatePresentations"
    [] op = "createSlide" -> "selectOrders"
    [] op = "updateSlide" -> "selectExisting"
    [] op = "deleteSlide" -> "deleteSlides"
    [] op = "listSlides" -> "selectSlides"

OwnedPresentationQuery(p) ==
  /\ pc[p] = "getOwnedPresentation"
  /\ IF ~IsDefined(GetOwnedPresentation(GuardedId(req[p]), req[p].user))
     THEN Finish(p, req[p], PresentationNotFound)
     ELSE UNCHANGED req /\ Await(p, AfterGuard(req[p].op),
                IF req[p].op = "updatePresentation"
                THEN [NoFrame EXCEPT !.now = now] ELSE NoFrame)
  /\ UNCHANGED << Presentations, Slides, now, presUuids, slideUuids >>

\* ---- updatePresentation ----
UpdatePresentation(p, inputs) == \E r \in inputs : AwaitOwnedPresentation(p, r)

UpdatePresentationRows(p) ==
  /\ pc[p] = "updatePresentations"
  /\ LET r == req[p]
         matched == { x \in Presentations : x.id = r.id }
         set(x) == [x EXCEPT !.slideCount = IF IsDefined(r.slideCount) THEN r.slideCount[1] ELSE @,
                             !.updatedAt = frame[p].now]
         returning == { set(x) : x \in matched }
     IN  /\ Presentations' = (Presentations \ matched) \cup returning
         /\ Finish(p, req[p], Success([presentation |-> First(returning)]))
  /\ UNCHANGED << Slides, now, presUuids, slideUuids >>

\* ---- listPresentations ----
ListPresentations(p, inputs) ==
  \E r \in inputs :
    /\ Call(p, r, "selectPresentations", NoFrame)
    /\ UNCHANGED << Presentations, Slides, now, presUuids, slideUuids >>

SelectPresentations(p) ==
  /\ pc[p] = "selectPresentations"
  /\ LET presentations == { x \in Presentations : x.userId = req[p].user }
     IN  Finish(p, req[p], Success([items |-> presentations, total |-> Cardinality(presentations)]))
  /\ UNCHANGED << Presentations, Slides, now, presUuids, slideUuids >>

\* ---- createSlide ----
CreateSlide(p, inputs) ==
  \E r \in inputs :
    /\ slideUuids < MaxSlides
    /\ AwaitOwnedPresentation(p, r)

SelectOrders(p) ==
  /\ pc[p] = "selectOrders"
  /\ slideUuids < MaxSlides
  /\ slideUuids' = slideUuids + 1
  /\ UNCHANGED req /\ Await(p, "insertSlide",
           [NoFrame EXCEPT !.existingOrders = OrdersOf(SlidesOf(req[p].presentationId)),
                           !.now = now, !.id = slideUuids + 1])
  /\ UNCHANGED << Presentations, Slides, now, presUuids >>

InsertSlide(p) ==
  /\ pc[p] = "insertSlide"
  /\ LET r == req[p]
         row == [id |-> frame[p].id, presentationId |-> r.presentationId,
                 orderIndex |-> NextOrder(r.orderIndex, frame[p].existingOrders),
                 updatedAt |-> frame[p].now]
     IN  /\ Slides' = Slides \cup {row}
         /\ UNCHANGED req /\ Await(p, "updateSlideCount", [frame[p] EXCEPT !.slide = Some(row)])
  /\ UNCHANGED << Presentations, now, presUuids, slideUuids >>

UpdateSlideCount(p) ==
  /\ pc[p] = "updateSlideCount"
  /\ LET matched == { x \in Presentations : x.id = req[p].presentationId }
         set(x) == [x EXCEPT !.slideCount = NextSlideCount(frame[p].existingOrders),
                             !.updatedAt = frame[p].now]
     IN  Presentations' = (Presentations \ matched) \cup { set(x) : x \in matched }
  /\ Finish(p, req[p], Success([slide |-> frame[p].slide]))
  /\ UNCHANGED << Slides, now, presUuids, slideUuids >>

\* ---- updateSlide ----
UpdateSlide(p, inputs) == \E r \in inputs : AwaitOwnedPresentation(p, r)

SelectExisting(p) ==
  /\ pc[p] = "selectExisting"
  /\ LET r == req[p]
         existing == First({ s \in Slides : s.id = r.id /\ s.presentationId = r.presentationId })
     IN  IF ~IsDefined(existing)
         THEN Finish(p, req[p], SlideNotFound)
         ELSE UNCHANGED req /\ Await(p, "updateSlides", [NoFrame EXCEPT !.now = now])
  /\ UNCHANGED << Presentations, Slides, now, presUuids, slideUuids >>

UpdateSlideRows(p) ==
  /\ pc[p] = "updateSlides"
  /\ LET r == req[p]
         matched == { s \in Slides : s.id = r.id }
         set(s) == [s EXCEPT !.orderIndex = IF IsDefined(r.orderIndex) THEN r.orderIndex[1] ELSE @,
                             !.updatedAt = frame[p].now]
         returning == { set(s) : s \in matched }
     IN  /\ Slides' = (Slides \ matched) \cup returning
         /\ Finish(p, req[p], Success([slide |-> First(returning)]))
  /\ UNCHANGED << Presentations, now, presUuids, slideUuids >>

\* ---- deleteSlide ----
DeleteSlide(p, inputs) == \E r \in inputs : AwaitOwnedPresentation(p, r)

DeleteSlideRows(p) ==
  /\ pc[p] = "deleteSlides"
  /\ LET deleted == DeletedSlides(req[p].id, req[p].presentationId)
         rowsAffected == Cardinality(deleted)
     IN  /\ Slides' = Slides \ deleted
         /\ IF rowsAffected = 0
            THEN Finish(p, req[p], SlideNotFound)
            ELSE Finish(p, req[p], Success(NoData))
  /\ UNCHANGED << Presentations, now, presUuids, slideUuids >>

\* ---- listSlides ----
ListSlides(p, inputs) == \E r \in inputs : AwaitOwnedPresentation(p, r)

SelectSlides(p) ==
  /\ pc[p] = "selectSlides"
  /\ LET slides == SlidesOf(req[p].presentationId)
     IN  Finish(p, req[p], Success([items |-> slides, total |-> Cardinality(slides)]))
  /\ UNCHANGED << Presentations, Slides, now, presUuids, slideUuids >>

----------------------------------------------------------------------------
\* No other request is in flight.
Alone(p) == \A q \in Procs \ {p} : pc[q] = "idle"

\* Requests run one at a time: a request starts, and proceeds, only while no
\* other request is in flight and the last response has been handed over.
Next ==
  \/ Tick
  \/ Respond
  \/ \E p \in Procs :
       \/ ~Responding /\ Alone(p) /\ CreatePresentation(p, CreatePresentationInputs)
       \/ ~Responding /\ Alone(p) /\ InsertPresentation(p)
       \/ ~Responding /\ Alone(p) /\ UpdatePresentation(p, UpdatePresentationInputs)
       \/ ~Responding /\ Alone(p) /\ OwnedPresentationQuery(p)
       \/ ~Responding /\ Alone(p) /\ UpdatePresentationRows(p)
       \/ ~Responding /\ Alone(p) /\ ListPresentations(p, ListPresentationsInputs)
       \/ ~Responding /\ Alone(p) /\ SelectPresentations(p)
       \/ ~Responding /\ Alone(p) /\ CreateSlide(p, CreateSlideInputs)
       \/ ~Responding /\ Alone(p) /\ SelectOrders(p)
       \/ ~Responding /\ Alone(p) /\ InsertSlide(p)
       \/ ~Responding /\ Alone(p) /\ UpdateSlideCount(p)
       \/ ~Responding /\ Alone(p) /\ UpdateSlide(p, UpdateSlideInputs)
       \/ ~Responding /\ Alone(p) /\ SelectExisting(p)
       \/ ~Responding /\ Alone(p) /\ UpdateSlideRows(p)
       \/ ~Responding /\ Alone(p) /\ DeleteSlide(p, DeleteSlideInputs)
       \/ ~Responding /\ Alone(p) /\ DeleteSlideRows(p)
       \/ ~Responding /\ Alone(p) /\ ListSlides(p, ListSlidesInputs)
       \/ ~Responding /\ Alone(p) /\ SelectSlides(p)
Spec == Init /\ [][Next]_vars

\* Requests interleave at the granularity of their store queries.  The
\* interleavings are explored over the requests that can interleave and whose
\* effect shows with the clock standing still: an anonymous request ends
\* inside its call step, createSlide takes the default order, and an update
\* supplies its numeric field.  The two list handlers write nothing and are
\* left out.
Interleaved(inputs) ==
  { r \in inputs :
      /\ r.user # NoUser
      /\ r.op = "createSlide" => ~IsDefined(r.orderIndex)
      /\ r.op = "updateSlide" => IsDefined(r.orderIndex)
      /\ r.op = "updatePresentation" => IsDefined(r.slideCount) }

NextConc ==
  \/ Respond
  \/ \E p \in Procs :
       \/ ~Responding /\ CreatePresentation(p, Interleaved(CreatePresentationInputs))
       \/ ~Responding /\ InsertPresentation(p)
       \/ ~Responding /\ UpdatePresentation(p, Interleaved(UpdatePresentationInputs))
       \/ ~Responding /\ OwnedPresentationQuery(p)
       \/ ~Responding /\ UpdatePresentationRows(p)
       \/ ~Responding /\ CreateSlide(p, Interleaved(CreateSlideInputs))
       \/ ~Responding /\ SelectOrders(p)
       \/ ~Responding /\ InsertSlide(p)
       \/ ~Responding /\ UpdateSlideCount(p)
       \/ ~Responding /\ UpdateSlide(p, Interleaved(UpdateSlideInputs))
       \/ ~Responding /\ SelectExisting(p)
       \/ ~Responding /\ UpdateSlideRows(p)
       \/ ~Responding /\ DeleteSlide(p, Interleaved(DeleteSlideInputs))
       \/ ~Responding /\ DeleteSlideRows(p)
SpecConc == Init /\ [][NextConc]_vars

----------------------------------------------------------------------------
\* Vocabulary of the properties.

GuardedOps == {"updatePresentation", "createSlide", "updateSlide", "deleteSlide", "listSlides"}
AllOps == GuardedOps \cup {"createPresentation", "listPresentations"}
Owns(u, i) == \E x \in Presentations : x.id = i /\ x.userId = u
Exists(i) == \E x \in Presentations : x.id = i
AllIdle == \A p \in Procs : pc[p] = "idle"
\* A handler returned or threw in this step.
Produced == ~Responding /\ Responding'
\* The response in hand is that of a createSlide that succeeded.
SlideCreated == Responding /\ response.req.op = "createSlide" /\ response.result.code = "OK"
CreatedSlide == response.result.data.slide[1]
\* The slides the presentation of the created slide had before it.
SlidesBefore == SlidesOf(response.req.presentationId) \ {CreatedSlide}
OrderSet(rows) == { r.orderIndex : r \in rows }

\* C1 (as claimed): whenever no request is in flight, every presentation's
\* cached slideCount equals the number of slides referencing it.
C1_SlideCountInSync ==
  AllIdle => \A x \in Presentations : x.slideCount = Cardinality(SlidesOf(x.id))

C3_CountIsSlidesPlusOne ==
  SlideCreated
    => /\ CreatedSlide \in Slides
       /\ \A x \in Presentations :
            x.id = response.req.presentationId
              => x.slideCount = Cardinality(SlidesBefore) + 1

\* C3 witness: a createSlide with an explicit orderIndex answered on a
\* presentation that already had a slide; its slideCount is now 2.
C3_Witness ==
  /\ SlideCreated /\ IsDefined(response.req.orderIndex)
  /\ Cardinality(SlidesBefore) = 1
  /\ \E x \in Presentations : x.id = response.req.presentationId /\ x.slideCount = 2

\* C4: a presentation-scoped action called by a signed-in user who does not own
\* the addressed presentation throws NOT_FOUND "Presentation not found." and
\* leaves the store alone, whether the presentation is another user's or does
\* not exist.
C4_NotOwnedIsNotFound ==
  [][ (/\ Produced
       /\ response'.req.op \in GuardedOps
       /\ response'.req.user \in Users
       /\ ~Owns(response'.req.user, GuardedId(response'.req)))
      => /\ response'.result.code = "NOT_FOUND"
         /\ response'.result.message = "Presentation not found."
         /\ response'.result.data = NoData
         /\ UNCHANGED store ]_vars

\* C4 witness: listSlides on another user's presentation answered NOT_FOUND.
C4_Witness ==
  /\ Responding
  /\ response.req.op = "listSlides"
  /\ response.req.user \in Users
  /\ Exists(response.req.presentationId)
  /\ ~Owns(response.req.user, response.req.presentationId)
  /\ response.result.code = "NOT_FOUND"

\* C5: every action called without a signed-in user throws UNAUTHORIZED inside
\* its call step, with no query awaited and the store unchanged.
C5_AnonymousIsUnauthorized ==
  [][ (Produced /\ response'.req.user = NoUser)
      => /\ response'.req.op \in AllOps
         /\ response'.result.code = "UNAUTHORIZED"
         /\ AllIdle /\ AllIdle'
         /\ UNCHANGED << store, presUuids, slideUuids >> ]_vars

\* C5 witness: an anonymous createSlide answered UNAUTHORIZED while the store
\* holds the presentation it addressed.
C5_Witness ==
  /\ Responding
  /\ response.req.op = "createSlide"
  /\ response.req.user = NoUser
  /\ Exists(response.req.presentationId)
  /\ response.result.code = "UNAUTHORIZED"

\* C6: deleteSlide by the owner of presentation P, given the id of a slide that
\* exists under another presentation, throws NOT_FOUND and deletes nothing.
C6_DeleteOtherPresentationsSlide ==
  [][ \A p \in Procs :
        (/\ pc[p] = "deleteSlides" /\ pc'[p] = "idle"
         /\ \E s \in Slides : s.id = req[p].id /\ s.presentationId # req[p].presentationId)
        => /\ Owns(req[p].user, req[p].presentationId)
           /\ response'.result.code = "NOT_FOUND"
           /\ response'.result.message = "Slide not found."
           /\ Slides' = Slides ]_vars

\* C6 witness: a deleteSlide answered "Slide not found." while a slide with
\* that id exists under another presentation.
C6_Witness ==
  /\ Responding
  /\ response.req.op = "deleteSlide"
  /\ response.result.message = "Slide not found."
  /\ \E s \in Slides : s.id = response.req.id /\ s.presentationId # response.req.presentationId

\* C7: a deleteSlide that succeeds removes exactly the addressed slide and
\* leaves every presentation row, slideCount and updatedAt included, as it was.
C7_DeleteLeavesPresentations ==
  [][ \A p \in Procs :
        (pc[p] = "deleteSlides" /\ pc'[p] = "idle" /\ response'.result.code = "OK")
        => /\ \E s \in Slides :
                /\ s.id = req[p].id /\ s.presentationId = req[p].presentationId
                /\ Slides' = Slides \ {s}
           /\ Presentations' = Presentations ]_vars

\* C7 witness: a deleteSlide succeeded at a later clock reading than the
\* parent's updatedAt, and the parent's slideCount now exceeds its slides.
C7_Witness ==
  /\ Responding
  /\ response.req.op = "deleteSlide"
  /\ response.result.code = "OK"
  /\ \E x \in Presentations :
       /\ x.id = response.req.presentationId
       /\ x.slideCount > Cardinality(SlidesOf(x.id))
       /\ x.updatedAt < now

\* C8: interleaved createSlide calls compute from what they read: the
\* orderIndex inserted is fresh, and the slideCount written is right, as long as
\* the presentation's slides are still the ones the call read; the duplicate
\* orderIndex and the undercount are reached (C8_Witness) when another
\* createSlide has changed them in between.
C8_StaleReadOnly ==
  [][ \A p \in Procs :
        /\ (/\ pc[p] = "insertSlide" /\ pc'[p] = "updateSlideCount"
            /\ ~IsDefined(req[p].orderIndex)
            /\ frame[p].existingOrders = OrdersOf(SlidesOf(req[p].presentationId)))
           => frame'[p].slide[1].orderIndex \notin OrderSet(SlidesOf(req[p].presentationId))
        /\ (/\ pc[p] = "updateSlideCount" /\ pc'[p] = "idle"
            /\ Len(frame[p].existingOrders) + 1 = Cardinality(SlidesOf(req[p].presentationId)))
           => \A x \in Presentations' :
                x.id = req[p].presentationId
                  => x.slideCount = Cardinality(SlidesOf(req[p].presentationId)) ]_vars

\* C8 witness: both createSlide calls have completed; the slide the second one
\* returns has the orderIndex of another slide of the presentation, and the
\* slideCount it wrote is smaller than the number of the presentation's slides.
C8_Witness ==
  /\ SlideCreated /\ AllIdle
  /\ ~IsDefined(response.req.orderIndex)
  /\ \E s \in SlidesBefore : s.orderIndex = CreatedSlide.orderIndex
  /\ \E x \in Presentations :
       /\ x.id = response.req.presentationId
       /\ x.slideCount < Cardinality(SlidesOf(x.id))

\* C9: a step of a request of user u inserts, changes or deletes only
\* presentations whose userId is u and slides of such presentations; no step
\* changes a presentation's userId or a slide's presentationId.
C9_OnlyOwnRows ==
  [][ /\ \A p \in Procs :
           pc'[p] # pc[p]
             => LET u == IF pc[p] = "idle" THEN req'[p].user ELSE req[p].user
                    both == Presentations \cup Presentations'
                IN  /\ \A x \in (Presentations \ Presentations') \cup (Presentations' \ Presentations) :
                         x.userId = u
                    /\ \A s \in (Slides \ Slides') \cup (Slides' \ Slides) :
                         \E x \in both : x.id = s.presentationId /\ x.userId = u
      /\ \A x \in Presentations : \E y \in Presentations' : y.id = x.id /\ y.userId = x.userId
      /\ \A s \in Slides : \A t \in Slides' : t.id = s.id => t.presentationId = s.presentationId
    ]_vars

\* C9 witness: user B's updateSlide returns its updated slide while a request
\* of user A is in flight and A owns a presentation with slides.
C9_Witness ==
  /\ Responding
  /\ response.req.op = "updateSlide"
  /\ response.req.user = "B"
  /\ response.result.code = "OK"
  /\ IsDefined(response.result.data.slide)
  /\ \E q \in Procs : pc[q] # "idle" /\ req[q].user = "A"
  /\ \E x \in Presentations : x.userId = "A" /\ SlidesOf(x.id) # {}

\* C10 (as claimed): the success envelope of updateSlide carries the updated
\* slide, also when a deleteSlide of that slide ran between updateSlide's
\* existence check and its update.
C10_UpdateReturnsSlide ==
  (Responding /\ response.req.op = "updateSlide" /\ response.result.code = "OK")
    => IsDefined(response.result.data.slide)

====
